---- MODULE Spec2Model ----
(***************************************************************************)
(* A model of the 6S emulator's lookup-table pipeline: LUT_build.py (the   *)
(* parameter grids, their permutation, the build loop and the pickle file  *)
(* it writes), the interpolation step (LUT_interpolate.py and              *)
(* bin/interpolated_LUTs.py) and the validation statistics (z/validation). *)
(* Each program is a specification of its own over the variables of this   *)
(* module; the variables of the programs that are not running stay as they *)
(* are.                                                                    *)
(*                                                                         *)
(* Numbers: every physical value is held in thousandths (0.25 is 250,      *)
(* 7.75 is 7750), so that the grids of input_variables and their midpoints *)
(* are exact integers.                                                     *)
(***************************************************************************)
EXTENDS Integers, Sequences, FiniteSets, TLC

VARIABLES
  fs,         \* the files on disk: file path |-> content
  dirs,       \* the directories os.makedirs has created
  pc,         \* where LUT_build.main is: "idle" between two invocations
  args,       \* argparse's namespace of the running invocation
  config,     \* main's config dictionary
  perms,      \* build_LUT's local perms
  outputs,    \* build_LUT's local outputs
  s,          \* the SixS object of build_LUT
  k,          \* number of elements of perms the loop of build_LUT has taken
  simCalls,   \* number of s.run() calls of the running invocation
  simRaised,  \* some s.run() of the running invocation raised
  simNaN,     \* some s.run() of the running invocation returned a NaN
  skipped,    \* the running invocation found the file and skipped build_LUT
  wrote,      \* the running invocation has created or written a file
  dirsAtStart,\* dirs when the running invocation started
  last,       \* summary of the invocation that ended most recently
  runs,       \* number of invocations started
  fault,      \* the simulator's behaviour: the point where it fails, if any
  pgrid,      \* a parameter grid handed to permutate_invars
  presult     \* what permutate_invars returned for pgrid

\* the interpolation step
VARIABLES
  lut_files,    \* the .lut files of the LUTs directory: band |-> table
  ilut_dir,     \* the iLUTs directory exists
  ilut_files,   \* the .ilut files of the iLUTs directory: band |-> content
  ipc,          \* where the interpolation program is; "idle" between runs
  prog,         \* the program running: "class" (Interpolated_LUTs) or
                \* "script" (LUT_interpolate.main)
  fnames,       \* the sorted list of .lut files the run iterates over
  fidx,         \* number of elements of fnames the loop has taken
  interpolator, \* the local interpolator of the running program
  constructed,  \* band |-> number of interpolants constructed for it so far
  ilutAtStart,  \* ilut_files when the running program started
  iruns,        \* number of runs of the interpolation step started
  ilast,        \* how the run that ended most recently ended
  sys_argv,     \* sys.argv[1:] of the most recent run of LUT_interpolate.py
  made_dirs     \* the directories os.makedirs has created beside ilut_dir

build_vars ==
  <<fs, dirs, pc, args, config, perms, outputs, s, k, simCalls, simRaised,
    simNaN, skipped, wrote, dirsAtStart, last, runs, fault, pgrid, presult>>

interp_vars ==
  <<lut_files, ilut_dir, ilut_files, ipc, prog, fnames, fidx, interpolator,
    constructed, ilutAtStart, iruns, ilast, sys_argv, made_dirs>>

\* reflectance_stats
VARIABLES
  ref,               \* the surface reflectance the statistics are made for
  sixs_outputs,      \* the simulator's output vector at each validation point
  estimated_outputs, \* the interpolant's output vector at each point
  stats_result       \* what reflectance_stats returned or raised

stats_vars == <<ref, sixs_outputs, estimated_outputs, stats_result>>

\* the Monte-Carlo plots
VARIABLES
  stat_files,  \* the stats_*.p files of a channel: each the array of the
               \* dref values, one row for each trial, one column for each
               \* reflectance
  drefs,       \* what load_performance_stats returned
  plotted,     \* the values each plot was made of
  mpc,         \* where the plot program is
  trial,       \* number of trials run_6S_monteCarlo has run
  ins,         \* the input dictionary of the latest trial
  queried      \* the point the latest trial asked the interpolant at

mc_vars == <<stat_files, drefs, plotted, mpc, trial, ins, queried>>

\* the validation batch
VARIABLES
  vlut_files,  \* the validation tables of the vLUTs directory: band |-> table
  vilut_files, \* the .ilut files of the iLUTs directory: band |-> interpolant
  vstats,      \* the statistics files written: band |-> statistics
  warned,      \* the bands 'iLUT filepath not recognized' was printed for
  vnames,      \* the list of validation tables the loop iterates over
  vidx,        \* number of elements of vnames the loop has taken
  vpc          \* where the validation program is

batch_vars == <<vlut_files, vilut_files, vstats, warned, vnames, vidx, vpc>>

\* mid_points
VARIABLES
  dim_values,  \* the values of one dimension handed to mid_points
  mids,      \* what mid_points returned
  gpc,       \* "called" when mid_points has returned, "returned" when
             \* input_variables has
  returned_grid  \* what input_variables returned

grid_vars == <<dim_values, mids, gpc, returned_grid>>

vars ==
  <<build_vars, interp_vars, stats_vars, mc_vars, batch_vars, grid_vars>>

\* the variables that are not LUT_build's
not_build_vars ==
  <<interp_vars, stats_vars, mc_vars, batch_vars, grid_vars>>

\* the variables that are not the interpolation step's
not_interp_vars ==
  <<build_vars, stats_vars, mc_vars, batch_vars, grid_vars>>

\* the variables that are not reflectance_stats'
not_stats_vars ==
  <<build_vars, interp_vars, mc_vars, batch_vars, grid_vars>>

\* the variables that are not the Monte-Carlo plots'
not_mc_vars ==
  <<build_vars, interp_vars, stats_vars, batch_vars, grid_vars>>

\* the variables that are not the validation batch's
not_batch_vars ==
  <<build_vars, interp_vars, stats_vars, mc_vars, grid_vars>>

\* the variables that are not mid_points'
not_grid_vars ==
  <<build_vars, interp_vars, stats_vars, mc_vars, batch_vars>>

-----------------------------------------------------------------------------
(* Values of the programs that are not running.                            *)

\* no interpolator object
NoInterpolator == [points |-> <<>>, values |-> <<>>]

\* a float: a number (k = "num", v its value in thousandths), an infinity
\* (k = "inf", v its sign) or the NaN
Fin(v) == [k |-> "num", v |-> v]
Inf(sign) == [k |-> "inf", v |-> sign]
NaN == [k |-> "nan", v |-> 0]

\* reflectance_stats has not been called
NoStats ==
  [called |-> FALSE, error |-> "", pd |-> <<>>, stats |-> <<>>,
   confidence |-> <<>>]

-----------------------------------------------------------------------------
(* Bounds of the model.                                                    *)

\* invocations of LUT_build.main in one behaviour
MaxRuns == 2

\* longest dimension sequence of the grids permutate_invars is tried on
MaxDimLen == 2

-----------------------------------------------------------------------------
(* Parameter grids: LUT_build.py, mid_points and input_variables.          *)

\* a plausible slip: (x[1:] - x[:-1]) / 2
mid_points_difference(elements) ==
  [i \in 1..(Len(elements) - 1) |-> (elements[i + 1] - elements[i]) \div 2]

\* a plausible slip: x[1:] + x[:-1] / 2
mid_points_unbracketed(elements) ==
  [i \in 1..(Len(elements) - 1) |-> elements[i + 1] + elements[i] \div 2]

\* mid_points(elements): (x[1:] + x[:-1]) / 2
mid_points(elements) ==
  [i \in 1..(Len(elements) - 1) |-> (elements[i + 1] + elements[i]) \div 2]

grid_test ==
  [solar_zs |-> <<0>>, H2Os |-> <<0>>, O3s |-> <<0>>, AOTs |-> <<0>>,
   alts |-> <<0>>]

\* a plausible slip: a value typed twice
grid_test2_twice ==
  [solar_zs |-> <<0, 10000, 20000>>,
   H2Os     |-> <<0, 2000, 3000>>,
   O3s      |-> <<0, 400, 400>>,
   AOTs     |-> <<0, 1000>>,
   alts     |-> <<0, 2000, 4000>>]

grid_test2 ==
  [solar_zs |-> <<0, 10000, 20000>>,
   H2Os     |-> <<0, 2000, 3000>>,
   O3s      |-> <<0, 400, 800>>,
   AOTs     |-> <<0, 1000>>,
   alts     |-> <<0, 2000, 4000>>]

grid_full ==
  [solar_zs |-> <<0, 10000, 20000, 30000, 40000, 50000, 60000, 65000, 70000,
                  75000>>,
   H2Os     |-> <<0, 250, 500, 1000, 1500, 2000, 3000, 5000, 8500>>,
   O3s      |-> <<0, 800>>,
   AOTs     |-> <<0, 250, 500, 750, 1000, 1250, 1500, 2250, 3000>>,
   alts     |-> <<0, 1000, 4000, 7750>>]

grid_validation ==
  [solar_zs |-> mid_points(grid_full.solar_zs),
   H2Os     |-> mid_points(grid_full.H2Os),
   O3s      |-> mid_points(grid_full.O3s),
   AOTs     |-> mid_points(grid_full.AOTs),
   alts     |-> mid_points(grid_full.alts)]

\* the keys of build_selector
build_selector_keys == {"test", "test2", "validation", "full"}

\* input_variables(build_type): build_selector[build_type]; a key that is
\* not in the dictionary is a KeyError, which the callers never reach.
input_variables(build_type) ==
  CASE build_type = "test"       -> grid_test
    [] build_type = "test2"      -> grid_test2
    [] build_type = "validation" -> grid_validation
    [] build_type = "full"       -> grid_full

-----------------------------------------------------------------------------
(* permutate_invars: list(itertools.product(solar_zs, H2Os, O3s, AOTs,     *)
(* alts)). itertools.product starts from the list holding the empty tuple  *)
(* and, pool by pool, replaces it by [x + (y,) for x in result for y in    *)
(* pool].                                                                  *)

\* [x + (y,) for x in result for y in pool]: x is taken in turn, and for
\* each x every y in turn
product_step(result, pool) ==
  [i \in 1..(Len(result) * Len(pool)) |->
     Append(result[((i - 1) \div Len(pool)) + 1],
            pool[((i - 1) % Len(pool)) + 1])]

RECURSIVE product(_)
product(pools) ==
  IF pools = <<>> THEN << <<>> >>
  ELSE product_step(product(SubSeq(pools, 1, Len(pools) - 1)),
                    pools[Len(pools)])

\* a plausible slip: the dimensions handed to product in another order
permutate_invars_swapped(invars) ==
  product(<<invars.solar_zs, invars.H2Os, invars.O3s, invars.alts,
            invars.AOTs>>)

permutate_invars(invars) ==
  product(<<invars.solar_zs, invars.H2Os, invars.O3s, invars.AOTs,
            invars.alts>>)

-----------------------------------------------------------------------------
(* Command-line values.  An option argparse was not given is None, modelled *)
(* as the empty tuple; an option that was given holds its value, modelled   *)
(* as a one-element tuple.  Names with underscores (channel names, file     *)
(* names) are held as the sequence of their '_'-separated parts, so that    *)
(* '_'.join and split('_') are Append, \o and SubSeq.                       *)

NotGiven == <<>>
Given(v) == <<v>>

\* Python's truth value of an optional string: None and '' are false
truthy_str(a) == a # NotGiven /\ a[1] # ""

\* Python's truth value of an optional list or '_'-name: None and the empty
\* one are false
truthy_seq(a) == a # NotGiven /\ a[1] # <<>>

S2A_MSI_01 == <<"S2A", "MSI", "01">>

\* Py6S: the names PredefinedWavelengths.__dict__ holds that Wavelength()
\* accepts
PredefinedWavelengths_dict == {S2A_MSI_01, <<"LANDSAT", "OLI", "B1">>}

\* Py6S: the aerosol profiles of class AeroProfile
AeroProfiles == {"Continental", "Maritime"}

\* AeroProfile.__dict__: the namespace of the class, which holds its
\* profiles and, as every Python class namespace does, names such as
\* '__doc__' that are no profile
AeroProfile_dict == AeroProfiles \cup {"__doc__"}

\* the list main tests build_type against
recognized_build_types == {"test", "test2", "full", "validation"}

ChannelArgs == {NotGiven, Given(S2A_MSI_01), Given(<<"S2A", "MSI", "99">>)}
WavelengthArgs ==
  {NotGiven, Given(<<"0.42">>), Given(<<"0.42", "0.72", "0.9">>)}
AerosolArgs == {NotGiven, Given("__doc__"), Given("Smoke")}
BuildTypeArgs == {NotGiven, Given(""), Given("test"), Given("smoke")}

\* the namespaces parse_args may return (--filter is not given).  The
\* options are combined freely with the build types of one permutation;
\* the build of 162 permutations, test2, is followed for one channel under
\* the default aerosol profile.
ArgSpace ==
  [channel : ChannelArgs, wavelength : WavelengthArgs, filter : {NotGiven},
   aerosol : AerosolArgs, build_type : BuildTypeArgs]
  \cup
  [channel : {Given(S2A_MSI_01)}, wavelength : {NotGiven},
   filter : {NotGiven}, aerosol : {NotGiven, Given("Maritime")},
   build_type : {Given("test2")}]

NoArgs ==
  [channel |-> NotGiven, wavelength |-> NotGiven, filter |-> NotGiven,
   aerosol |-> NotGiven, build_type |-> NotGiven]

-----------------------------------------------------------------------------
(* main, lines 262-338: the checks of the arguments and the configuration. *)

NoSpectrum == [kind |-> "", id |-> <<>>]

\* lines 269-303: the spectrum main assigns, NoSpectrum while the name
\* spectrum is unbound.  error: the sys.exit(1) of these lines was reached.
spectrum_of(a) ==
  LET wl == IF truthy_seq(a.wavelength) THEN a.wavelength[1] ELSE <<>>
      tooLong == Len(wl) > 2
      fromWl == IF truthy_seq(a.wavelength)
                THEN [kind |-> "wavelength", id |-> wl] ELSE NoSpectrum
      badChannel == truthy_seq(a.channel)
                    /\ a.channel[1] \notin PredefinedWavelengths_dict
      spec == IF truthy_seq(a.channel)
              THEN [kind |-> "channel", id |-> a.channel[1]] ELSE fromWl
  IN [error |-> tooLong \/ badChannel \/ spec = NoSpectrum, spectrum |-> spec]

\* lines 313-320
aerosol_of(a) ==
  IF truthy_str(a.aerosol)
  THEN [error |-> a.aerosol[1] \notin AeroProfile_dict, val |-> a.aerosol[1]]
  ELSE [error |-> FALSE, val |-> "Continental"]

\* lines 323-329
build_type_of(a) ==
  IF truthy_str(a.build_type)
  THEN [error |-> a.build_type[1] \notin recognized_build_types,
        val |-> a.build_type[1]]
  ELSE [error |-> FALSE, val |-> "test"]

NoGrid ==
  [solar_zs |-> <<>>, H2Os |-> <<>>, O3s |-> <<>>, AOTs |-> <<>>,
   alts |-> <<>>]

NoDir == [sensor |-> <<>>, aerosol |-> "", view |-> 0]
NoPath == [outdir |-> NoDir, filename |-> <<>>, ext |-> ""]

NoConfig ==
  [spectrum |-> NoSpectrum, aerosol_profile |-> "", view_zenith |-> 0,
   build_type |-> "", invars |-> NoGrid, outdir |-> NoDir,
   filename |-> <<>>, filepath |-> NoPath]

\* lines 332-338: the config dictionary (outdir, filename and filepath are
\* the keys IO_handler adds)
new_config(a) ==
  [spectrum |-> spectrum_of(a).spectrum,
   aerosol_profile |-> aerosol_of(a).val,
   view_zenith |-> 0,
   build_type |-> build_type_of(a).val,
   invars |-> input_variables(build_type_of(a).val),
   outdir |-> NoDir, filename |-> <<>>, filepath |-> NoPath]

\* main leaves through one of its sys.exit(1) before line 331
config_error(a) ==
  spectrum_of(a).error \/ aerosol_of(a).error \/ build_type_of(a).error

-----------------------------------------------------------------------------
(* IO_handler, lines 212-250.                                              *)

\* lines 218-228: the file name without its extension
io_filename(a) ==
  IF truthy_seq(a.channel) THEN a.channel[1]
  ELSE (IF truthy_seq(a.wavelength) THEN <<"wavelength">> \o a.wavelength[1]
        ELSE <<>>)
       \o (IF truthy_seq(a.filter) THEN <<"f">> ELSE <<>>)

\* lines 231-234: '_'.join(filename.split('_')[:-1])
io_sensor_name(a) ==
  IF truthy_seq(a.channel)
  THEN SubSeq(io_filename(a), 1, Len(io_filename(a)) - 1)
  ELSE <<"user-defined-sensor">>

\* lines 237-239
io_outdir(cfg, a) ==
  [sensor |-> io_sensor_name(a), aerosol |-> cfg.aerosol_profile,
   view |-> cfg.view_zenith]

\* lines 246-248
io_config(cfg, a) ==
  [cfg EXCEPT !.outdir = io_outdir(cfg, a),
              !.filename = io_filename(a),
              !.filepath = [outdir |-> io_outdir(cfg, a),
                            filename |-> io_filename(a), ext |-> "lut"]]

\* a plausible slip: the test always false, so that every run builds
isfile_never(fsys, path) == FALSE

\* os.path.isfile
isfile(fsys, path) == path \in DOMAIN fsys

-----------------------------------------------------------------------------
(* The simulator (Py6S, external).  A run is a deterministic function of   *)
(* the settings of the SixS object; what it computes is opaque, so a       *)
(* quantity it returns is held as its name, the settings it was computed   *)
(* from, and whether it is a NaN.  Arithmetic on the quantities of one run *)
(* names the result and propagates NaN, as IEEE arithmetic does.           *)

NoSixS ==
  [aero_profile |-> "", view_z |-> 0 - 1, month |-> 0, day |-> 0,
   solar_z |-> 0 - 1, H2O |-> 0 - 1, O3 |-> 0 - 1, aot550 |-> 0 - 1,
   alt |-> 0 - 1, wavelength |-> NoSpectrum]

\* the five varying inputs a run is configured with
point_of(sx) == <<sx.solar_z, sx.H2O, sx.O3, sx.aot550, sx.alt>>

quantity(name, sx, isNaN) ==
  [nan |-> isNaN, q |-> name, at |-> point_of(sx),
   fixed |-> <<sx.aero_profile, sx.view_z, sx.wavelength.id>>]

\* x op y, named name
binop(name, x, y) == [x EXCEPT !.nan = x.nan \/ y.nan, !.q = name]

\* the points at which the simulator may misbehave, and how
FaultPoints == {<<0, 0, 0, 0, 0>>, <<10000, 2000, 400, 1000, 2000>>}
NoFault == [kind |-> "none", at |-> <<>>]
Faults == {NoFault} \cup [kind : {"raise", "nan"}, at : FaultPoints]

\* s.run(): raises, or fills s.outputs
SixS_run(sx, flt) ==
  LET hit == flt.kind # "none" /\ flt.at = point_of(sx)
      bad == hit /\ flt.kind = "nan"
  IN [raised |-> hit /\ flt.kind = "raise",
      outputs |->
        [direct_solar_irradiance        |-> quantity("Edir", sx, FALSE),
         diffuse_solar_irradiance       |-> quantity("Edif", sx, FALSE),
         global_gas_upward              |-> quantity("absorb", sx, FALSE),
         total_scattering_upward        |-> quantity("scatter", sx, FALSE),
         atmospheric_intrinsic_radiance |-> quantity("Lp", sx, bad)]]

-----------------------------------------------------------------------------
(* build_LUT, lines 155-210.                                               *)

\* lines 161-167
init_sixs(cfg) ==
  [NoSixS EXCEPT !.aero_profile = cfg.aerosol_profile,
                 !.view_z = cfg.view_zenith, !.month = 1, !.day = 4]

\* a plausible slip: one of the inputs (aot550) is not updated in the loop
update_inputs_stale(sx, cfg, perm) ==
  [sx EXCEPT !.solar_z = perm[1], !.H2O = perm[2], !.O3 = perm[3],
             !.alt = perm[5], !.wavelength = cfg.spectrum]

\* lines 179-183
update_inputs(sx, cfg, perm) ==
  [sx EXCEPT !.solar_z = perm[1], !.H2O = perm[2], !.O3 = perm[3],
             !.aot550 = perm[4], !.alt = perm[5],
             !.wavelength = cfg.spectrum]

\* lines 189-204: the pair (a, b) appended to outputs
coefficients(out) ==
  LET Edir == out.direct_solar_irradiance
      Edif == out.diffuse_solar_irradiance
      E == binop("E", Edir, Edif)
      absorb == out.global_gas_upward
      scatter == out.total_scattering_upward
      tau2 == binop("tau2", absorb, scatter)
      Lp == out.atmospheric_intrinsic_radiance
      a == Lp
      b == binop("tau2*E/pi", tau2, E)
  IN <<a, b>>

\* a plausible slip: a run that raises is caught and its sample left out
loop_body_skip(sx, cfg, outs, perm, flt) ==
  LET sx2 == update_inputs(sx, cfg, perm)
      run == SixS_run(sx2, flt)
  IN [raised |-> FALSE, s |-> sx2,
      outputs |-> IF run.raised THEN outs
                  ELSE Append(outs, coefficients(run.outputs))]

\* lines 174-204: one pass of the loop body.  raised: s.run() raised, and
\* nothing catches it.
loop_body(sx, cfg, outs, perm, flt) ==
  LET sx2 == update_inputs(sx, cfg, perm)
      run == SixS_run(sx2, flt)
  IN [raised |-> run.raised, s |-> sx2,
      outputs |-> IF run.raised THEN outs
                  ELSE Append(outs, coefficients(run.outputs))]

\* line 207
make_LUT(cfg, outs) == [config |-> cfg, outputs |-> outs]

\* a file: what a reader finds in it.  open(path, 'wb') leaves a file of
\* zero bytes; pickle.dump then writes the pickled object.
\* a plausible slip: the numbers of the output tuples are written one
\* after the other, the tuples are not
save_tuples_flat(outs) ==
  <<[op |-> "MARK"]>>
  \o [p \in 1..(2 * Len(outs)) |->
        [op |-> "PUSH", arg |-> outs[(p + 1) \div 2][2 - (p % 2)]]]
  \o <<[op |-> "APPENDS"]>>

\* the pickle of the list of output pairs (a, b): the mark, for each pair
\* its two numbers and TUPLE2, then APPENDS
save_tuples(outs) ==
  <<[op |-> "MARK"]>>
  \o [p \in 1..(3 * Len(outs)) |->
        IF p % 3 = 0 THEN [op |-> "TUPLE2"]
        ELSE [op |-> "PUSH", arg |-> outs[(p + 2) \div 3][p % 3]]]
  \o <<[op |-> "APPENDS"]>>

\* pickle.dump(LUT, file), line 208: the opcodes written for the dictionary
\* of line 207.  A string, a number, the spectrum and a path are pushed as
\* one value; a list is the mark, its items and APPENDS; a dictionary is
\* the mark, its keys each followed by its value, and SETITEMS.
pickle_dump(LUT) ==
  LET atom(v) == <<[op |-> "PUSH", arg |-> v]>>
      list(xs) ==
        <<[op |-> "MARK"]>>
        \o [i \in 1..Len(xs) |-> [op |-> "PUSH", arg |-> xs[i]]]
        \o <<[op |-> "APPENDS"]>>
      item(key, value) == atom(key) \o value
      dict(items) ==
        <<[op |-> "MARK"]>> \o items \o <<[op |-> "SETITEMS"]>>
      c == LUT.config
      invars ==
        dict(item("solar_zs", list(c.invars.solar_zs))
             \o item("H2Os", list(c.invars.H2Os))
             \o item("O3s", list(c.invars.O3s))
             \o item("AOTs", list(c.invars.AOTs))
             \o item("alts", list(c.invars.alts)))
      cfg ==
        dict(item("spectrum", atom(c.spectrum))
             \o item("aerosol_profile", atom(c.aerosol_profile))
             \o item("view_zenith", atom(c.view_zenith))
             \o item("build_type", atom(c.build_type))
             \o item("invars", invars)
             \o item("outdir", atom(c.outdir))
             \o item("filename", atom(c.filename))
             \o item("filepath", atom(c.filepath)))
  IN dict(item("config", cfg) \o item("outputs", save_tuples(LUT.outputs)))
     \o <<[op |-> "STOP"]>>

\* pickle.load(file) (interpolated_LUTs.py, line 125): the unpickler's
\* machine over the opcodes.  MARK puts the stack aside and starts an empty
\* one; APPENDS and SETITEMS make a list or a dictionary of the stack and
\* push it onto the one put aside; STOP ends the stream, and the top of the
\* stack is returned.  (The opcodes lo to hi are run in two halves, the
\* state after the first bound as a value, which keeps the evaluation
\* shallow.)
pickle_load(stream) ==
  LET step(m, o) ==
        LET stack == m.stack
            meta == m.meta
            n == Len(stack)
            below == SubSeq(meta, 1, Len(meta) - 1)
            keys == {stack[2 * j - 1] : j \in 1..(n \div 2)}
        IN CASE o.op = "STOP" -> m
             [] o.op = "PUSH" -> [stack |-> Append(stack, o.arg), meta |-> meta]
             [] o.op = "MARK" -> [stack |-> <<>>, meta |-> Append(meta, stack)]
             [] o.op = "TUPLE2" ->
                  [stack |-> Append(SubSeq(stack, 1, n - 2),
                                    <<stack[n - 1], stack[n]>>),
                   meta |-> meta]
             [] o.op = "APPENDS" ->
                  [stack |-> Append(meta[Len(meta)], stack), meta |-> below]
             [] o.op = "SETITEMS" ->
                  [stack |->
                     Append(meta[Len(meta)],
                            [key \in keys |->
                               stack[2 * (CHOOSE j \in 1..(n \div 2) :
                                            stack[2 * j - 1] = key)]]),
                   meta |-> below]
      RECURSIVE run(_, _, _)
      run(m, lo, hi) ==
        IF lo = hi THEN step(m, stream[lo])
        ELSE CHOOSE r \in {run(left, (lo + hi) \div 2 + 1, hi) :
                             left \in {run(m, lo, (lo + hi) \div 2)}} : TRUE
      end == run([stack |-> <<>>, meta |-> <<>>], 1, Len(stream))
  IN end.stack[Len(end.stack)]

\* a .lut file: open(path, 'wb') leaves it empty; pickle.dump fills it, and
\* obj is what pickle.load returns from it
EmptyFile == [bytes |-> "empty", obj |-> make_LUT(NoConfig, <<>>)]
PickleFile(obj) == [bytes |-> "pickle", obj |-> pickle_load(pickle_dump(obj))]

\* fsys with the file at path set to content
write_file(fsys, path, content) ==
  [p \in DOMAIN fsys \cup {path} |-> IF p = path THEN content ELSE fsys[p]]

-----------------------------------------------------------------------------
(* bin/interpolated_LUTs.py, lines 127-136: the input points and outputs   *)
(* that interpolate_LUTs hands to LinearNDInterpolator for a loaded LUT.   *)

\* a plausible slip: the product taken in another order of the dimensions
ilut_inputs_reordered(LUT) ==
  LET invars == LUT.config.invars
  IN product(<<invars.H2Os, invars.solar_zs, invars.O3s, invars.AOTs,
               invars.alts>>)

ilut_inputs(LUT) ==
  LET invars == LUT.config.invars
  IN product(<<invars.solar_zs, invars.H2Os, invars.O3s, invars.AOTs,
               invars.alts>>)

ilut_outputs(LUT) == LUT.outputs

-----------------------------------------------------------------------------
(* LUT_build.main as a state machine.  The process is started (Main_start) *)
(* up to MaxRuns times, one run after the other; when it ends, its memory  *)
(* is gone and only the files and directories remain.                      *)

\* the Configuration a config dictionary stands for
ConfigKey(cfg) ==
  [spectrum |-> cfg.spectrum, aerosol_profile |-> cfg.aerosol_profile,
   view_zenith |-> cfg.view_zenith, build_type |-> cfg.build_type]

NoLast ==
  [cfg |-> ConfigKey(NoConfig), filepath |-> NoPath, exit |-> "none",
   simCalls |-> 0, nperms |-> 0, skipped |-> FALSE, simRaised |-> FALSE,
   simNaN |-> FALSE]

\* the programs other than the one running have not been used
Idle(running) ==
  /\ IF running = "build" THEN TRUE
     ELSE /\ fs = << >>
          /\ dirs = {}
          /\ pc = "idle"
          /\ args = NoArgs
          /\ config = NoConfig
          /\ perms = <<>>
          /\ outputs = <<>>
          /\ s = NoSixS
          /\ k = 0
          /\ simCalls = 0
          /\ simRaised = FALSE
          /\ simNaN = FALSE
          /\ skipped = FALSE
          /\ wrote = FALSE
          /\ dirsAtStart = {}
          /\ last = NoLast
          /\ runs = 0
          /\ fault = NoFault
          /\ pgrid = NoGrid
          /\ presult = <<>>
  /\ IF running = "interp" THEN TRUE
     ELSE /\ lut_files = << >>
          /\ ilut_dir = FALSE
          /\ ilut_files = << >>
          /\ ipc = "idle"
          /\ prog = ""
          /\ fnames = <<>>
          /\ fidx = 0
          /\ interpolator = NoInterpolator
          /\ constructed = << >>
          /\ ilutAtStart = << >>
          /\ iruns = 0
          /\ ilast = [exit |-> "none", band |-> 0]
          /\ sys_argv = <<>>
          /\ made_dirs = {}
  /\ IF running = "stats" THEN TRUE
     ELSE /\ ref = Fin(0)
          /\ sixs_outputs = <<>>
          /\ estimated_outputs = <<>>
          /\ stats_result = NoStats
  /\ IF running = "plots" THEN TRUE
     ELSE /\ stat_files = <<>>
          /\ drefs = <<>>
          /\ plotted = <<>>
          /\ mpc = "idle"
          /\ trial = 0
          /\ ins = << >>
          /\ queried = <<>>
  /\ IF running = "batch" THEN TRUE
     ELSE /\ vlut_files = << >>
          /\ vilut_files = << >>
          /\ vstats = << >>
          /\ warned = {}
          /\ vnames = <<>>
          /\ vidx = 0
          /\ vpc = "idle"
  /\ IF running = "grid" THEN TRUE
     ELSE /\ dim_values = <<>>
          /\ mids = <<>>
          /\ gpc = "idle"
          /\ returned_grid = NoGrid

Init ==
  /\ Idle("build")
  /\ fs = << >>
  /\ dirs = {}
  /\ pc = "idle"
  /\ args = NoArgs
  /\ config = NoConfig
  /\ perms = <<>>
  /\ outputs = <<>>
  /\ s = NoSixS
  /\ k = 0
  /\ simCalls = 0
  /\ simRaised = FALSE
  /\ simNaN = FALSE
  /\ skipped = FALSE
  /\ wrote = FALSE
  /\ dirsAtStart = {}
  /\ last = NoLast
  /\ runs = 0
  /\ fault \in Faults
  /\ pgrid = NoGrid
  /\ presult = <<>>

\* the process ends (sys.exit, an uncaught exception, a signal or the end
\* of main): kind says how; calls, raised and nan are the run's history
Exit(kind, calls, raised, nan) ==
  /\ pc' = "idle"
  /\ last' = [cfg |-> ConfigKey(config), filepath |-> config.filepath,
              exit |-> kind, simCalls |-> calls, nperms |-> Len(perms),
              skipped |-> skipped, simRaised |-> raised, simNaN |-> nan]
  /\ args' = NoArgs
  /\ config' = NoConfig
  /\ perms' = <<>>
  /\ outputs' = <<>>
  /\ s' = NoSixS
  /\ k' = 0
  /\ simCalls' = 0
  /\ simRaised' = FALSE
  /\ simNaN' = FALSE
  /\ skipped' = FALSE
  /\ wrote' = FALSE
  /\ dirsAtStart' = dirs'

\* lines 255-266: parse_args
Main_start ==
  /\ UNCHANGED not_build_vars
  /\ pc = "idle"
  /\ runs < MaxRuns
  /\ \E a \in ArgSpace : args' = a
  /\ pc' = "parsed"
  /\ runs' = runs + 1
  /\ UNCHANGED <<fs, dirs, config, perms, outputs, s, k, simCalls, simRaised,
                 simNaN, skipped, wrote, dirsAtStart, last, fault, pgrid,
                 presult>>

\* lines 268-338: the checks, each ending in sys.exit(1), then the config.
\* (input_variables raises KeyError for a key build_selector lacks.)
Main_validate ==
  /\ UNCHANGED not_build_vars
  /\ pc = "parsed"
  /\ UNCHANGED <<fs, dirs, runs, fault, pgrid, presult>>
  /\ IF config_error(args)
     THEN Exit("config_error", simCalls, simRaised, simNaN)
     ELSE IF build_type_of(args).val \notin build_selector_keys
     THEN Exit("KeyError", simCalls, simRaised, simNaN)
     ELSE /\ config' = new_config(args)
          /\ pc' = "io_handler"
          /\ UNCHANGED <<args, perms, outputs, s, k, simCalls, simRaised,
                         simNaN, skipped, wrote, dirsAtStart, last>>

\* lines 212-250, called at line 341
IO_handler ==
  /\ UNCHANGED not_build_vars
  /\ pc = "io_handler"
  /\ dirs' = dirs \cup {io_outdir(config, args)}
  /\ config' = io_config(config, args)
  /\ pc' = "check"
  /\ UNCHANGED <<fs, args, perms, outputs, s, k, simCalls, simRaised, simNaN,
                 skipped, wrote, dirsAtStart, last, runs, fault, pgrid,
                 presult>>

\* lines 347-351, and lines 161-173 of build_LUT when it is called
Main_check ==
  /\ UNCHANGED not_build_vars
  /\ pc = "check"
  /\ IF isfile(fs, config.filepath)
     THEN /\ skipped' = TRUE
          /\ pc' = "time_check"
          /\ UNCHANGED <<s, perms, outputs, k>>
     ELSE /\ s' = init_sixs(config)
          /\ perms' = permutate_invars(config.invars)
          /\ outputs' = <<>>
          /\ k' = 0
          /\ pc' = "loop"
          /\ UNCHANGED skipped
  /\ UNCHANGED <<fs, dirs, args, config, simCalls, simRaised, simNaN,
                 wrote, dirsAtStart, last, runs, fault, pgrid, presult>>

\* lines 174-204: the loop takes the next element of perms
Build_iterate ==
  /\ UNCHANGED not_build_vars
  /\ pc = "loop"
  /\ k < Len(perms)
  /\ UNCHANGED <<fs, dirs, runs, fault, pgrid, presult>>
  /\ LET perm == perms[k + 1]
         r == loop_body(s, config, outputs, perm, fault)
         run == SixS_run(update_inputs(s, config, perm), fault)
         nan == run.outputs.atmospheric_intrinsic_radiance.nan
     IN IF r.raised
        THEN Exit("sim_error", simCalls + 1, TRUE, simNaN)
        ELSE /\ s' = r.s
             /\ outputs' = r.outputs
             /\ k' = k + 1
             /\ simCalls' = simCalls + 1
             /\ simRaised' = (simRaised \/ run.raised)
             /\ simNaN' = (simNaN \/ (~run.raised /\ nan))
             /\ UNCHANGED <<pc, args, config, perms, skipped, wrote,
                            dirsAtStart, last>>

\* lines 207-208: perms is exhausted; LUT is made and open(filepath, 'wb')
\* creates the file
Build_open ==
  /\ UNCHANGED not_build_vars
  /\ pc = "loop"
  /\ k = Len(perms)
  /\ fs' = write_file(fs, config.filepath, EmptyFile)
  /\ pc' = "dump"
  /\ wrote' = TRUE
  /\ UNCHANGED <<dirs, args, config, perms, outputs, s, k, simCalls,
                 simRaised, simNaN, skipped, dirsAtStart, last,
                 runs, fault, pgrid, presult>>

\* line 208: pickle.dump writes LUT to the open file, build_LUT returns
Build_dump ==
  /\ UNCHANGED not_build_vars
  /\ pc = "dump"
  /\ fs' = write_file(fs, config.filepath,
                      PickleFile(make_LUT(config, outputs)))
  /\ pc' = "time_check"
  /\ wrote' = TRUE
  /\ UNCHANGED <<dirs, args, config, perms, outputs, s, k, simCalls,
                 simRaised, simNaN, skipped, dirsAtStart, last,
                 runs, fault, pgrid, presult>>

\* the process is stopped (a signal, a full disk, a power cut) after open
\* and before the dump is written.  Stopping it elsewhere leaves the files
\* as they were and is not followed.
Interrupt ==
  /\ UNCHANGED not_build_vars
  /\ pc = "dump"
  /\ UNCHANGED <<fs, dirs, runs, fault, pgrid, presult>>
  /\ Exit("interrupted", simCalls, simRaised, simNaN)

\* lines 354-356: main returns
Main_finish ==
  /\ UNCHANGED not_build_vars
  /\ pc = "time_check"
  /\ UNCHANGED <<fs, dirs, runs, fault, pgrid, presult>>
  /\ Exit("ok", simCalls, simRaised, simNaN)

Next ==
  \/ Main_start
  \/ Main_validate
  \/ IO_handler
  \/ Main_check
  \/ Build_iterate
  \/ Build_open
  \/ Build_dump
  \/ Interrupt
  \/ Main_finish

Spec == Init /\ [][Next]_vars

-----------------------------------------------------------------------------
(* permutate_invars on its own: a grid is drawn, the function applied.     *)

DimValues == {0, 1, 2}

\* the strictly increasing sequences of 1..MaxDimLen values
DimSeqs ==
  {q \in UNION {[1..n -> DimValues] : n \in 1..MaxDimLen} :
     \A i \in 1..(Len(q) - 1) : q[i] < q[i + 1]}

Grids ==
  [solar_zs : DimSeqs, H2Os : DimSeqs, O3s : DimSeqs, AOTs : DimSeqs,
   alts : DimSeqs]

InitPerm ==
  /\ Idle("build")
  /\ fs = << >>
  /\ dirs = {}
  /\ pc = "idle"
  /\ args = NoArgs
  /\ config = NoConfig
  /\ perms = <<>>
  /\ outputs = <<>>
  /\ s = NoSixS
  /\ k = 0
  /\ simCalls = 0
  /\ simRaised = FALSE
  /\ simNaN = FALSE
  /\ skipped = FALSE
  /\ wrote = FALSE
  /\ dirsAtStart = {}
  /\ last = NoLast
  /\ runs = 0
  /\ fault = NoFault
  /\ pgrid \in Grids
  /\ presult = <<>>

Permutate ==
  /\ UNCHANGED not_build_vars
  /\ presult = <<>>
  /\ presult' = permutate_invars(pgrid)
  /\ UNCHANGED <<fs, dirs, pc, args, config, perms, outputs, s, k, simCalls,
                 simRaised, simNaN, skipped, wrote, dirsAtStart, last,
                 runs, fault, pgrid>>

NextPerm == Permutate

SpecPerm == InitPerm /\ [][NextPerm]_vars

-----------------------------------------------------------------------------
(* The interpolation step: LUT_interpolate.py (create_interpolator, main)  *)
(* and the method interpolate_LUTs of bin/interpolated_LUTs.py.  The .lut  *)
(* and .ilut files are named by their band number; a sorted list of file   *)
(* names is a list of increasing band numbers.                             *)

\* .lut files in the LUTs directory
MaxBands == 2

\* runs of the interpolation step in one behaviour
MaxInterpRuns == 2

Bands == 1..MaxBands

\* a grid of two values in each dimension
grid_two ==
  [solar_zs |-> <<0, 10000>>, H2Os |-> <<0, 2000>>, O3s |-> <<0, 400>>,
   AOTs |-> <<0, 1000>>, alts |-> <<0, 2000>>]

\* a number a table or an interpolant holds: component comp of the output
\* vector at the point at; nan: it is the NaN
value_at(x, j) == [nan |-> FALSE, at |-> x, comp |-> j]

\* the output vectors, of width w, of a table over grid
table_outputs(grid, w) ==
  [i \in 1..Len(permutate_invars(grid)) |->
     [j \in 1..w |-> value_at(permutate_invars(grid)[i], j)]]

\* a table in the layout build_LUT pickles (LUT_build.py, line 207)
table_of_build(grid, w) ==
  make_LUT([NoConfig EXCEPT !.invars = grid], table_outputs(grid, w))

\* a table in the layout create_interpolator and get_stats look up
table_with_inputs(grid, w) ==
  [inputs |-> [permutations |-> permutate_invars(grid)],
   outputs |-> table_outputs(grid, w)]

\* the tables a .lut file may hold
LutTables ==
  {table_of_build(grid_two, 2), table_of_build(grid_test, 2),
   table_of_build(grid_two, 4), table_with_inputs(grid_two, 4),
   table_with_inputs(grid_two, 2)}

\* the LUTs directory: some bands have a .lut file
LutDirs == UNION {[B -> LutTables] : B \in SUBSET Bands}

\* sorted(names)
sorted(S) ==
  CHOOSE q \in [1..Cardinality(S) -> S] :
    \A i, j \in 1..Cardinality(S) : i < j => q[i] < q[j]

\* the result of a call that may raise: error is the exception, "" if none
Raised(e) == [error |-> e, interpolator |-> NoInterpolator]

\* scipy.interpolate.LinearNDInterpolator(points, values): the values must
\* be one row for each point, all of one width, and Qhull must find an
\* initial simplex, which needs ndim + 2 points that do not lie in a
\* hyperplane (for the points of a grid: two values in each dimension)
LinearNDInterpolator(points, values) ==
  LET ragged == \E i \in 1..Len(values) : Len(values[i]) # Len(values[1])
      flat == \/ Len(points) < 7
              \/ \E d \in 1..5 :
                   \A i \in 1..Len(points) : points[i][d] = points[1][d]
  IN IF Len(points) # Len(values) \/ ragged THEN Raised("ValueError")
     ELSE IF flat THEN Raised("QhullError")
     ELSE [error |-> "",
           interpolator |-> [points |-> points, values |-> values]]

\* a plausible slip: zip(Edif, Edir, tau2, Lp)
create_interpolator_swapped(LUT) ==
  IF "inputs" \notin DOMAIN LUT THEN Raised("KeyError")
  ELSE IF \E i \in 1..Len(LUT.outputs) : Len(LUT.outputs[i]) < 4
  THEN Raised("IndexError")
  ELSE LinearNDInterpolator(
         [i \in 1..Len(LUT.inputs.permutations) |->
            SubSeq(LUT.inputs.permutations[i], 1, 5)],
         [i \in 1..Len(LUT.outputs) |->
            <<LUT.outputs[i][2], LUT.outputs[i][1], LUT.outputs[i][3],
              LUT.outputs[i][4]>>])

\* LUT_interpolate.py, create_interpolator, lines 31-56, on the table that
\* pickle.load returned
create_interpolator(LUT) ==
  IF "inputs" \notin DOMAIN LUT THEN Raised("KeyError")
  ELSE IF \E i \in 1..Len(LUT.outputs) : Len(LUT.outputs[i]) < 4
  THEN Raised("IndexError")
  ELSE LinearNDInterpolator(
         [i \in 1..Len(LUT.inputs.permutations) |->
            SubSeq(LUT.inputs.permutations[i], 1, 5)],
         [i \in 1..Len(LUT.outputs) |-> SubSeq(LUT.outputs[i], 1, 4)])

\* interpolated_LUTs.py, lines 125-140, on the table pickle.load returned
interpolate_one(LUT) ==
  IF "config" \notin DOMAIN LUT THEN Raised("KeyError")
  ELSE LinearNDInterpolator(ilut_inputs(LUT), ilut_outputs(LUT))

\* interpolator(x): the output vector at x.  At a point the interpolant was
\* built from it is the vector stored for the point; outside the convex
\* hull of the points (for the points of a grid: outside the box they span)
\* it is NaN in every component
query(I, x) ==
  LET inside == \A d \in 1..5 :
                  \E i, j \in 1..Len(I.points) :
                    I.points[i][d] <= x[d] /\ x[d] <= I.points[j][d]
  IN IF \E i \in 1..Len(I.points) : I.points[i] = x
     THEN I.values[CHOOSE i \in 1..Len(I.points) : I.points[i] = x]
     ELSE [j \in 1..Len(I.values[1]) |->
             [nan |-> ~inside, at |-> x, comp |-> j]]

\* an .ilut file: open(path, 'wb') leaves it empty, pickle.dump fills it
EmptyIlut == [bytes |-> "empty", obj |-> NoInterpolator]
PickleIlut(obj) == [bytes |-> "pickle", obj |-> obj]

InitInterp ==
  /\ Idle("interp")
  /\ lut_files \in LutDirs
  /\ ilut_dir \in BOOLEAN
  /\ ilut_files = << >>
  /\ ipc = "idle"
  /\ prog = ""
  /\ fnames = <<>>
  /\ fidx = 0
  /\ interpolator = NoInterpolator
  /\ constructed = [b \in DOMAIN lut_files |-> 0]
  /\ ilutAtStart = << >>
  /\ iruns = 0
  /\ ilast = [exit |-> "none", band |-> 0]
  /\ sys_argv = <<>>
  /\ made_dirs = {}

\* the program ends: kind says how ("ok", the message it printed or the
\* exception that ended the loop), band is the file it was at (0: none)
InterpExit(kind, band) ==
  /\ ipc' = "idle"
  /\ prog' = ""
  /\ fnames' = <<>>
  /\ fidx' = 0
  /\ interpolator' = NoInterpolator
  /\ ilutAtStart' = ilut_files'
  /\ ilast' = [exit |-> kind, band |-> band]

\* interpolated_LUTs.py, lines 105-111 and 150-153
Class_start ==
  /\ UNCHANGED not_interp_vars
  /\ sys_argv' = <<>>
  /\ UNCHANGED made_dirs
  /\ ipc = "idle"
  /\ iruns < MaxInterpRuns
  /\ iruns' = iruns + 1
  /\ UNCHANGED <<lut_files, ilut_dir, ilut_files, constructed>>
  /\ IF DOMAIN lut_files = {}
     THEN InterpExit("no files", 0)
     ELSE /\ prog' = "class"
          /\ fnames' = sorted(DOMAIN lut_files)
          /\ fidx' = 0
          /\ ipc' = "loop"
          /\ ilutAtStart' = ilut_files
          /\ UNCHANGED <<interpolator, ilast>>

\* lines 113-122: the next file; it is skipped when its .ilut exists
Class_check ==
  /\ UNCHANGED not_interp_vars
  /\ UNCHANGED <<sys_argv, made_dirs>>
  /\ ipc = "loop" /\ prog = "class"
  /\ fidx < Len(fnames)
  /\ IF isfile(ilut_files, fnames[fidx + 1])
     THEN fidx' = fidx + 1 /\ ipc' = "loop"
     ELSE fidx' = fidx /\ ipc' = "build"
  /\ UNCHANGED <<lut_files, ilut_dir, ilut_files, prog, fnames, interpolator,
                 constructed, ilutAtStart, iruns, ilast>>

\* lines 125-141; an exception is caught at line 146: 'interpolation error'
\* is printed and the method returns
Class_build ==
  /\ UNCHANGED not_interp_vars
  /\ UNCHANGED <<sys_argv, made_dirs>>
  /\ ipc = "build" /\ prog = "class"
  /\ UNCHANGED <<lut_files, ilut_dir, ilut_files, iruns>>
  /\ LET b == fnames[fidx + 1]
         r == interpolate_one(lut_files[b])
     IN IF r.error # ""
        THEN InterpExit(r.error, b) /\ UNCHANGED constructed
        ELSE /\ interpolator' = r.interpolator
             /\ constructed' = [constructed EXCEPT ![b] = @ + 1]
             /\ ipc' = "open"
             /\ UNCHANGED <<prog, fnames, fidx, ilutAtStart, ilast>>

\* line 144, open(ilut_filepath, 'wb'): it raises when the directory does
\* not exist, which is caught at line 146
Class_open ==
  /\ UNCHANGED not_interp_vars
  /\ UNCHANGED <<sys_argv, made_dirs>>
  /\ ipc = "open" /\ prog = "class"
  /\ UNCHANGED <<lut_files, ilut_dir, constructed, iruns>>
  /\ IF ilut_dir
     THEN /\ ilut_files' = write_file(ilut_files, fnames[fidx + 1], EmptyIlut)
          /\ ipc' = "dump"
          /\ UNCHANGED <<prog, fnames, fidx, interpolator, ilutAtStart,
                         ilast>>
     ELSE /\ ilut_files' = ilut_files
          /\ InterpExit("FileNotFoundError", fnames[fidx + 1])

\* line 144, pickle.dump
Class_dump ==
  /\ UNCHANGED not_interp_vars
  /\ UNCHANGED <<sys_argv, made_dirs>>
  /\ ipc = "dump" /\ prog = "class"
  /\ ilut_files' = write_file(ilut_files, fnames[fidx + 1],
                              PickleIlut(interpolator))
  /\ fidx' = fidx + 1
  /\ ipc' = "loop"
  /\ UNCHANGED <<lut_files, ilut_dir, prog, fnames, interpolator,
                 constructed, ilutAtStart, iruns, ilast>>

\* the loop is over, the method returns
Class_return ==
  /\ UNCHANGED not_interp_vars
  /\ UNCHANGED <<sys_argv, made_dirs>>
  /\ ipc = "loop" /\ prog = "class"
  /\ fidx = Len(fnames)
  /\ UNCHANGED <<lut_files, ilut_dir, ilut_files, constructed, iruns>>
  /\ InterpExit("ok", 0)

\* paths are absolute, written as the sequence of their segments: the LUTs
\* directory lut_files stands for, a directory under a LUTs directory that
\* does not exist, and a path without a '/LUTs/' segment
LutPath == <<"files", "LUTs", "S2A_MSI">>
MissingPath == <<"files", "LUTs", "L8_OLI">>
PlainPath == <<"files", "tables", "S2A_MSI">>
ScriptArgvs ==
  {<<>>, <<LutPath>>, <<MissingPath>>, <<PlainPath>>, <<LutPath, LutPath>>}

\* re.search('/LUTs/', lut_path), line 82: the first segment LUTs that has a
\* '/' on both sides, 0 for None
re_search_LUTs(lut_path) ==
  IF \E i \in 1..(Len(lut_path) - 1) : lut_path[i] = "LUTs"
  THEN CHOOSE i \in 1..(Len(lut_path) - 1) :
         /\ lut_path[i] = "LUTs"
         /\ \A j \in 1..(i - 1) : lut_path[j] # "LUTs"
  ELSE 0

\* lines 83-85: base_path + '/iLUTs/' + satellite_config
ilut_path_of(lut_path, i) ==
  SubSeq(lut_path, 1, i - 1) \o <<"iLUTs">>
    \o SubSeq(lut_path, i + 1, Len(lut_path))

\* LUT_interpolate.py, main, lines 71-99
Script_start ==
  /\ UNCHANGED not_interp_vars
  /\ ipc = "idle"
  /\ iruns < MaxInterpRuns
  /\ iruns' = iruns + 1
  /\ UNCHANGED <<lut_files, ilut_files, constructed>>
  /\ \E av \in ScriptArgvs :
       /\ sys_argv' = av
       /\ IF Len(av) # 1
          THEN /\ InterpExit("usage", 0)
               /\ UNCHANGED <<ilut_dir, made_dirs>>
          ELSE LET lut_path == av[1]
                   i == re_search_LUTs(lut_path)
                   ilut_path == ilut_path_of(lut_path, i)
               IN IF i = 0
                  THEN \* s is None: s.start() raises, nothing catches it
                       /\ InterpExit("AttributeError", 0)
                       /\ UNCHANGED <<ilut_dir, made_dirs>>
                  ELSE \* lines 86-87 come before the directory is looked at
                       /\ IF ilut_path = ilut_path_of(LutPath, 2)
                          THEN ilut_dir' = TRUE /\ UNCHANGED made_dirs
                          ELSE /\ made_dirs' = made_dirs \cup {ilut_path}
                               /\ UNCHANGED ilut_dir
                       /\ IF lut_path # LutPath
                          THEN InterpExit("invalid LUT directory", 0)
                          ELSE IF DOMAIN lut_files = {}
                          THEN InterpExit("exit 1", 0)
                          ELSE /\ prog' = "script"
                               /\ fnames' = sorted(DOMAIN lut_files)
                               /\ fidx' = 0
                               /\ ipc' = "loop"
                               /\ ilutAtStart' = ilut_files
                               /\ UNCHANGED <<interpolator, ilast>>

\* lines 102-111
Script_check ==
  /\ UNCHANGED not_interp_vars
  /\ UNCHANGED <<sys_argv, made_dirs>>
  /\ ipc = "loop" /\ prog = "script"
  /\ fidx < Len(fnames)
  /\ IF isfile(ilut_files, fnames[fidx + 1])
     THEN fidx' = fidx + 1 /\ ipc' = "loop"
     ELSE fidx' = fidx /\ ipc' = "build"
  /\ UNCHANGED <<lut_files, ilut_dir, ilut_files, prog, fnames, interpolator,
                 constructed, ilutAtStart, iruns, ilast>>

\* line 112: create_interpolator; nothing catches what it raises
Script_build ==
  /\ UNCHANGED not_interp_vars
  /\ UNCHANGED <<sys_argv, made_dirs>>
  /\ ipc = "build" /\ prog = "script"
  /\ UNCHANGED <<lut_files, ilut_dir, ilut_files, iruns>>
  /\ LET b == fnames[fidx + 1]
         r == create_interpolator(lut_files[b])
     IN IF r.error # ""
        THEN InterpExit(r.error, b) /\ UNCHANGED constructed
        ELSE /\ interpolator' = r.interpolator
             /\ constructed' = [constructed EXCEPT ![b] = @ + 1]
             /\ ipc' = "open"
             /\ UNCHANGED <<prog, fnames, fidx, ilutAtStart, ilast>>

\* line 114, open(ilut_filepath, 'wb'), in the directory line 87 has made
Script_open ==
  /\ UNCHANGED not_interp_vars
  /\ UNCHANGED <<sys_argv, made_dirs>>
  /\ ipc = "open" /\ prog = "script"
  /\ ilut_files' = write_file(ilut_files, fnames[fidx + 1], EmptyIlut)
  /\ ipc' = "dump"
  /\ UNCHANGED <<lut_files, ilut_dir, prog, fnames, fidx, interpolator,
                 constructed, ilutAtStart, iruns, ilast>>

\* line 114, pickle.dump
Script_dump ==
  /\ UNCHANGED not_interp_vars
  /\ UNCHANGED <<sys_argv, made_dirs>>
  /\ ipc = "dump" /\ prog = "script"
  /\ ilut_files' = write_file(ilut_files, fnames[fidx + 1],
                              PickleIlut(interpolator))
  /\ fidx' = fidx + 1
  /\ ipc' = "loop"
  /\ UNCHANGED <<lut_files, ilut_dir, prog, fnames, interpolator,
                 constructed, ilutAtStart, iruns, ilast>>

\* the loop is over, main returns
Script_return ==
  /\ UNCHANGED not_interp_vars
  /\ UNCHANGED <<sys_argv, made_dirs>>
  /\ ipc = "loop" /\ prog = "script"
  /\ fidx = Len(fnames)
  /\ UNCHANGED <<lut_files, ilut_dir, ilut_files, constructed, iruns>>
  /\ InterpExit("ok", 0)

NextInterp ==
  \/ Class_start
  \/ Class_check
  \/ Class_build
  \/ Class_open
  \/ Class_dump
  \/ Class_return
  \/ Script_start
  \/ Script_check
  \/ Script_build
  \/ Script_open
  \/ Script_dump
  \/ Script_return

SpecInterp == InitInterp /\ [][NextInterp]_vars

-----------------------------------------------------------------------------
(* Floating-point arithmetic as numpy does it on arrays of float64: every  *)
(* operation rounds (here to a thousandth), a division by zero gives an    *)
(* infinity or, for 0/0, the NaN (with a warning, no exception), and the   *)
(* NaN propagates.                                                         *)

\* one, in thousandths
Unit == 1000

\* np.pi
pi == Fin(3142)

\* a / b rounded to the nearest integer (b # 0)
rdiv(a, b) ==
  IF b > 0 THEN (2 * a + b) \div (2 * b)
  ELSE (2 * (0 - a) + (0 - b)) \div (2 * (0 - b))

fabs(x) ==
  IF x.k = "nan" THEN NaN ELSE [x EXCEPT !.v = IF @ < 0 THEN 0 - @ ELSE @]

fadd(x, y) ==
  IF x.k = "nan" \/ y.k = "nan" THEN NaN
  ELSE IF x.k = "inf" /\ y.k = "inf" THEN (IF x.v = y.v THEN x ELSE NaN)
  ELSE IF x.k = "inf" THEN x
  ELSE IF y.k = "inf" THEN y
  ELSE Fin(x.v + y.v)

fsub(x, y) ==
  fadd(x, IF y.k = "nan" THEN NaN ELSE [y EXCEPT !.v = 0 - y.v])

fmul(x, y) ==
  IF x.k = "nan" \/ y.k = "nan" THEN NaN
  ELSE IF x.k = "inf" \/ y.k = "inf"
  THEN (IF x.v * y.v = 0 THEN NaN ELSE Inf(IF x.v * y.v > 0 THEN 1 ELSE 0 - 1))
  ELSE Fin(rdiv(x.v * y.v, Unit))

fdiv(x, y) ==
  IF x.k = "nan" \/ y.k = "nan" THEN NaN
  ELSE IF x.k = "inf"
  THEN (IF y.k = "inf" THEN NaN ELSE Inf(IF y.v < 0 THEN 0 - x.v ELSE x.v))
  ELSE IF y.k = "inf" THEN Fin(0)
  ELSE IF y.v = 0
  THEN (IF x.v = 0 THEN NaN ELSE Inf(IF x.v > 0 THEN 1 ELSE 0 - 1))
  ELSE Fin(rdiv(x.v * Unit, y.v))

\* np.sqrt of a float that is not negative
fsqrt(x) ==
  LET RECURSIVE isqrt(_)
      \* the largest r with r * r <= n
      isqrt(n) == IF n < 2 THEN n
                  ELSE LET r == 2 * isqrt(n \div 4)
                       IN IF (r + 1) * (r + 1) <= n THEN r + 1 ELSE r
  IN IF x.k = "num" THEN Fin(isqrt(x.v * Unit)) ELSE x

\* x <= y, for floats that are not the NaN
fle(x, y) ==
  IF x.k = "inf" THEN x.v < 0 \/ (y.k = "inf" /\ y.v > 0)
  ELSE IF y.k = "inf" THEN y.v > 0
  ELSE x.v <= y.v

\* np.sort
RECURSIVE fsort(_)
fsort(a) ==
  IF Len(a) <= 1 THEN a
  ELSE LET m == CHOOSE i \in 1..Len(a) : \A j \in 1..Len(a) : fle(a[i], a[j])
       IN <<a[m]>> \o fsort(SubSeq(a, 1, m - 1) \o SubSeq(a, m + 1, Len(a)))

RECURSIVE fsum(_)
fsum(a) ==
  IF a = <<>> THEN Fin(0)
  ELSE fadd(fsum(SubSeq(a, 1, Len(a) - 1)), a[Len(a)])

\* np.mean: of the empty array it is the NaN (with a warning)
np_mean(a) ==
  IF a = <<>> THEN NaN ELSE fdiv(fsum(a), Fin(Len(a) * Unit))

\* np.std: sqrt(mean(abs(a - mean(a)) ** 2))
np_std(a) ==
  fsqrt(np_mean([i \in 1..Len(a) |->
                   fmul(fabs(fsub(a[i], np_mean(a))),
                        fabs(fsub(a[i], np_mean(a))))]))

\* np.min and np.max of an array that is not empty
np_min(a) == fsort(a)[1]
np_max(a) == fsort(a)[Len(a)]

\* np.percentile(a, q) of an array that is not empty: the sorted values
\* below and above the position q / 100 * (n - 1), weighted
np_percentile(a, q) ==
  LET n == Len(a)
      lo == (q * (n - 1)) \div 100
      hi == IF lo + 1 < n THEN lo + 1 ELSE lo
      above == ((q * (n - 1)) % 100) * (Unit \div 100)
  IN fadd(fmul(fsort(a)[lo + 1], Fin(Unit - above)),
          fmul(fsort(a)[hi + 1], Fin(above)))

-----------------------------------------------------------------------------
(* z/validation/validation_stats.py, reflectance_stats (the function of    *)
(* the same name in z/validation/Deterministic/LUT_validation_stats.py is  *)
(* the same code).  An output vector is <<Edir, Edif, tau2, Lp>>.          *)

\* validation points in one call of reflectance_stats
MaxPoints == 3

\* lines 19-20: ref*tau2*(Edir + Edif)/np.pi + Lp
at_sensor_radiance(r, o) ==
  fadd(fdiv(fmul(fmul(r, o[3]), fadd(o[1], o[2])), pi), o[4])

\* a plausible slip: the diffuse irradiance is left out of the divisor
surface_reflectance_direct_only(rad, o) ==
  fdiv(fmul(pi, fsub(rad, o[4])), fmul(o[3], o[1]))

\* lines 22-23: np.pi*(rad-Lp) / (tau2*(Edir+Edif))
surface_reflectance(rad, o) ==
  fdiv(fmul(pi, fsub(rad, o[4])), fmul(o[3], fadd(o[1], o[2])))

\* lines 30-36: 100*(interp_ref-ref)/ref at one validation point
percent_difference(r, sixs, est) ==
  fdiv(fmul(Fin(100 * Unit),
            fsub(surface_reflectance(at_sensor_radiance(r, sixs), est), r)),
       r)

\* a plausible slip: the NaNs are left in
ignore_nans_not(pd) == pd

\* line 37: pd[np.where(pd==pd)]
ignore_nans(pd) == SelectSeq(pd, LAMBDA x : x.k # "nan")

\* lines 40-47, for a pd that is not empty
stats_of(pd) ==
  [called |-> TRUE, error |-> "", pd |-> pd,
   stats |-> <<np_mean(pd), np_std(pd), np_min(pd), np_max(pd)>>,
   confidence |->
     <<np_percentile([i \in 1..Len(pd) |-> fabs(pd[i])], 90),
       np_percentile([i \in 1..Len(pd) |-> fabs(pd[i])], 95),
       np_percentile([i \in 1..Len(pd) |-> fabs(pd[i])], 99)>>]

\* a plausible slip: an empty pd is given statistics of zero
reflectance_stats_zero(r, sixs, est) ==
  LET pd == ignore_nans([i \in 1..Len(sixs) |->
                           percent_difference(r, sixs[i], est[i])])
  IN IF pd = <<>>
     THEN [called |-> TRUE, error |-> "", pd |-> <<>>,
           stats |-> <<Fin(0), Fin(0), Fin(0), Fin(0)>>,
           confidence |-> <<Fin(0), Fin(0), Fin(0)>>]
     ELSE stats_of(pd)

\* lines 26-47.  For an empty pd, np.mean and np.std of line 40 return the
\* NaN with a warning and np.min raises ValueError ('zero-size array to
\* reduction operation minimum which has no identity'), which nothing
\* catches.
reflectance_stats(r, sixs, est) ==
  LET pd == ignore_nans([i \in 1..Len(sixs) |->
                           percent_difference(r, sixs[i], est[i])])
  IN IF pd = <<>>
     THEN [NoStats EXCEPT !.called = TRUE, !.error = "ValueError"]
     ELSE stats_of(pd)

\* the loop would append in reverse: estimate i is for the point Len + 1 - i
estimated_outputs_reversed(iLUT, inputs) ==
  [i \in 1..Len(inputs) |-> query(iLUT, inputs[Len(inputs) + 1 - i])]

\* get_stats, lines 80-83 (LUT_validation_stats.py, lines 97-100): the loop
\* that appends iLUT(i) for each i of the validation inputs, in their order
estimated_outputs_of(iLUT, inputs) ==
  [i \in 1..Len(inputs) |-> query(iLUT, inputs[i])]

\* Deterministic/LUT_validation_stats.py, get_stats, lines 66-86, on the
\* validation table and the interpolant that pickle.load returned.  The
\* table is looked up under 'inputs' and 'outputs'; reflectance_stats takes
\* columns 0 to 3 of the outputs (IndexError for a narrower array).  A
\* number the table or the interpolant holds for component j is Edir, Edif,
\* tau2 or Lp of a clear atmosphere, or the NaN.
get_stats(vLUT, iLUT, r) ==
  LET number(v) == IF v.nan THEN NaN ELSE Fin(<<1000, 500, 800, 200>>[v.comp])
      numbers(rows) ==
        [i \in 1..Len(rows) |-> [j \in 1..4 |-> number(rows[i][j])]]
      failed(e) == [NoStats EXCEPT !.called = TRUE, !.error = e]
  IN IF "inputs" \notin DOMAIN vLUT THEN failed("KeyError")
     ELSE IF \E i \in 1..Len(vLUT.outputs) : Len(vLUT.outputs[i]) < 4
     THEN failed("IndexError")
     ELSE IF Len(iLUT.values[1]) < 4 THEN failed("IndexError")
     ELSE reflectance_stats(
            r, numbers(vLUT.outputs),
            numbers(estimated_outputs_of(iLUT, vLUT.inputs.permutations)))

\* the simulator's and the interpolant's output vector at one validation
\* point
PointCases ==
  LET vec(Edir, Edif, tau2, Lp) == <<Fin(Edir), Fin(Edif), Fin(tau2), Fin(Lp)>>
  IN {\* the interpolant returns what the simulator returned
      [sixs |-> vec(1000, 500, 800, 200), est |-> vec(1000, 500, 800, 200)],
      [sixs |-> vec(1200, 300, 600, 50), est |-> vec(1200, 300, 600, 50)],
      \* it is off in the transmissivity, or in the path radiance
      [sixs |-> vec(1000, 500, 800, 200), est |-> vec(1000, 500, 700, 200)],
      [sixs |-> vec(1000, 500, 800, 200), est |-> vec(1000, 500, 800, 199)],
      \* the point is outside the convex hull
      [sixs |-> vec(1000, 500, 800, 200), est |-> <<NaN, NaN, NaN, NaN>>],
      \* the transmissivity is zero, and so is the interpolated one
      [sixs |-> vec(1000, 500, 0, 200), est |-> vec(1000, 500, 0, 200)],
      \* the interpolated transmissivity alone is zero
      [sixs |-> vec(1000, 500, 800, 200), est |-> vec(1000, 500, 0, 200)]}

InitStats ==
  /\ Idle("stats")
  /\ ref \in {Fin(100), Fin(10)}
  /\ \E n \in 1..MaxPoints :
       \E c \in [1..n -> PointCases] :
         /\ sixs_outputs = [i \in 1..n |-> c[i].sixs]
         /\ estimated_outputs = [i \in 1..n |-> c[i].est]
  /\ stats_result = NoStats

Reflectance_stats ==
  /\ UNCHANGED not_stats_vars
  /\ ~stats_result.called
  /\ stats_result' = reflectance_stats(ref, sixs_outputs, estimated_outputs)
  /\ UNCHANGED <<ref, sixs_outputs, estimated_outputs>>

NextStats == Reflectance_stats

SpecStats == InitStats /\ [][NextStats]_vars

-----------------------------------------------------------------------------
(* z/validation/MonteCarlo: the plots made of the saved trial results.     *)
(* MonteCarloRuns.saveToFile pickles (stats, refs): stats has one row for  *)
(* each trial and in it one dref = model_ref - ref for each reflectance of *)
(* refs.  The dref of a trial outside the convex hull is the NaN.          *)

\* stats files of a channel, and trials in one file
MaxStatFiles == 2
MaxTrials == 2

\* refs of MonteCarloRuns.py, line 224, the first two of them
refs == <<Fin(50), Fin(100)>>

\* the row of a trial: its dref at each reflectance
DrefRows == {<<Fin(10), Fin(0 - 20)>>, <<NaN, NaN>>, <<Fin(0), Fin(5)>>}

\* MonteCarlo_Histoplot.py, load_performance_stats, lines 26-32, for the
\* files that glob returned: in each array the entries that are not equal
\* to themselves are set to 0, then the arrays are concatenated
load_performance_stats(files) ==
  LET nan_to_zero(a) ==
        [i \in 1..Len(a) |->
           [j \in 1..Len(a[i]) |->
              IF a[i][j].k = "nan" THEN Fin(0) ELSE a[i][j]]]
      RECURSIVE concatenate(_)
      concatenate(as) ==
        IF as = <<>> THEN <<>> ELSE Head(as) \o concatenate(Tail(as))
  IN concatenate([f \in 1..Len(files) |-> nan_to_zero(files[f])])

\* dref_slice(drefs, refs, ref) for ref = refs[index]
dref_slice(ds, index) == [i \in 1..Len(ds) |-> ds[i][index]]

\* MonteCarlo_Plot_v2.py, plot_percentiles, lines 30-39: for each ref the
\* values the percentiles are made of and the percentiles
plot_percentiles(ds) ==
  [index \in 1..Len(refs) |->
     LET dref == [i \in 1..Len(ds) |->
                    fmul(dref_slice(ds, index)[i], Fin(100 * Unit))]
         absd == [i \in 1..Len(dref) |-> fabs(dref[i])]
     IN [of |-> dref,
         P |-> <<np_percentile(absd, 95), np_percentile(absd, 99),
                 np_percentile(absd, 100)>>]]

\* MonteCarlo_Histoplot.py, plot_histograms, lines 81-93, for ref =
\* refs[index]: the values of the histogram and the percentile printed
plot_histograms(ds, index) ==
  <<[of |-> dref_slice(ds, index),
     P |-> <<np_percentile([i \in 1..Len(ds) |->
                              fabs(dref_slice(ds, index)[i])], 95)>>]>>

InitMonteCarlo ==
  /\ Idle("plots")
  /\ \E n \in 0..MaxStatFiles :
       stat_files \in [1..n -> UNION {[1..m -> DrefRows] : m \in 1..MaxTrials}]
  /\ drefs = <<>>
  /\ plotted = <<>>
  /\ mpc = "idle"
  /\ trial = 0
  /\ ins = << >>
  /\ queried = <<>>

\* load_performance_stats called by a plot function.  np.concatenate of no
\* array raises ValueError: the except branch prints and exits
Load_performance_stats ==
  /\ UNCHANGED not_mc_vars
  /\ mpc = "idle"
  /\ IF stat_files = <<>>
     THEN mpc' = "exit 1" /\ drefs' = drefs
     ELSE mpc' = "loaded" /\ drefs' = load_performance_stats(stat_files)
  /\ UNCHANGED <<stat_files, plotted, trial, ins, queried>>

Plot_percentiles ==
  /\ UNCHANGED not_mc_vars
  /\ mpc = "loaded"
  /\ plotted' = plot_percentiles(drefs)
  /\ mpc' = "percentiles"
  /\ UNCHANGED <<stat_files, drefs, trial, ins, queried>>

Plot_histograms ==
  /\ UNCHANGED not_mc_vars
  /\ mpc = "loaded"
  /\ \E index \in 1..Len(refs) : plotted' = plot_histograms(drefs, index)
  /\ mpc' = "histograms"
  /\ UNCHANGED <<stat_files, drefs, trial, ins, queried>>

NextMonteCarlo ==
  \/ Load_performance_stats
  \/ Plot_percentiles
  \/ Plot_histograms

SpecMonteCarlo == InitMonteCarlo /\ [][NextMonteCarlo]_vars

-----------------------------------------------------------------------------
(* MonteCarloRuns.py, run_6S_monteCarlo: the random inputs of a trial and  *)
(* the point performance_statistics asks the interpolant at.               *)

\* values random.random() may return, in [0, 1): the least, the middle and
\* the largest the arithmetic here can hold
RandomValues == {0, 500, 999}

\* values random.randint(1, 366) may return
RandomDays == {1, 366}

\* a plausible slip: the solar zenith is drawn from 0 to 90
random_ins_wide(doy, u) ==
  [doy |-> doy, solar_z |-> u[1] * 90, H2O |-> u[2] * 3 + Unit,
   O3 |-> rdiv(u[3] * 400, Unit) + 200, AOT |-> u[4] * 2]

\* lines 172-177 and 210-216: the random variables of one trial, from the
\* values u that the four calls of random.random() returned
random_ins(doy, u) ==
  [doy |-> doy, solar_z |-> u[1] * 60, H2O |-> u[2] * 3 + Unit,
   O3 |-> rdiv(u[3] * 400, Unit) + 200, AOT |-> u[4] * 2]

\* performance_statistics, line 139: the arguments of iLUT(...)
iLUT_point(i) == <<i.solar_z, i.H2O, i.O3, i.AOT, 0>>

InitTrials ==
  /\ Idle("plots")
  /\ stat_files = <<>>
  /\ drefs = <<>>
  /\ plotted = <<>>
  /\ mpc = "idle"
  /\ trial = 0
  /\ ins = << >>
  /\ queried = <<>>

\* one iteration of the loop of run_6S_monteCarlo, lines 167-230
Run_trial ==
  /\ UNCHANGED not_mc_vars
  /\ trial < MaxTrials
  /\ trial' = trial + 1
  /\ \E doy \in RandomDays : \E u \in [1..4 -> RandomValues] :
       /\ ins' = random_ins(doy, u)
       /\ queried' = iLUT_point(random_ins(doy, u))
  /\ UNCHANGED <<stat_files, drefs, plotted, mpc>>

NextTrials == Run_trial

SpecTrials == InitTrials /\ [][NextTrials]_vars

-----------------------------------------------------------------------------
(* z/validation/Deterministic/LUT_validation_stats.py, main: the           *)
(* validation batch.  For each validation table of the vLUTs directory the *)
(* interpolant of the same name is compared with the table.  The loop of   *)
(* z/validation/LUT_validation_stats.py, main, lines 151-161, is the same  *)
(* but for a statistics file that exists, which it leaves as it is.        *)

\* the validation tables a batch may hold: the midpoints of grid_two, in
\* the layout get_stats looks up and in the layout build_LUT pickles, and a
\* point outside the hull of grid_two
VlutTables ==
  LET mid == [d \in DOMAIN grid_two |-> mid_points(grid_two[d])]
      out == [mid EXCEPT !.solar_zs = <<20000>>]
      two == [mid EXCEPT !.O3s = <<100, 300>>]
  IN {table_with_inputs(mid, 4), table_of_build(mid, 2),
      table_with_inputs(out, 4), table_with_inputs(two, 4)}

\* the interpolant of a table of width 4 over grid_two
ilut_two ==
  LinearNDInterpolator(permutate_invars(grid_two),
                       table_outputs(grid_two, 4)).interpolator

InitBatch ==
  /\ Idle("batch")
  /\ \E B \in SUBSET Bands : vlut_files \in [B -> VlutTables]
  /\ \E B \in SUBSET DOMAIN vlut_files : vilut_files = [b \in B |-> ilut_two]
  /\ vstats = << >>
  /\ warned = {}
  /\ vnames = <<>>
  /\ vidx = 0
  /\ vpc = "idle"

\* lines 100-103: glob.glob returns the tables in any order
Batch_start ==
  /\ UNCHANGED not_batch_vars
  /\ vpc = "idle"
  /\ IF DOMAIN vlut_files = {}
     THEN vpc' = "exit 1" /\ vnames' = vnames
     ELSE /\ vpc' = "loop"
          /\ \E order \in [1..Cardinality(DOMAIN vlut_files)
                             -> DOMAIN vlut_files] :
               /\ \A i, j \in DOMAIN order : i # j => order[i] # order[j]
               /\ vnames' = order
  /\ UNCHANGED <<vlut_files, vilut_files, vstats, warned, vidx>>

\* lines 113-122, one iteration: the statistics are made and pickled when
\* the .ilut exists, else the warning is printed.  Nothing catches what
\* get_stats raises: the traceback ends the program.
Batch_item ==
  /\ UNCHANGED not_batch_vars
  /\ vpc = "loop"
  /\ vidx < Len(vnames)
  /\ LET b == vnames[vidx + 1]
         r == get_stats(vlut_files[b], vilut_files[b], Fin(10))
     IN IF ~isfile(vilut_files, b)
        THEN /\ warned' = warned \cup {b}
             /\ vidx' = vidx + 1
             /\ UNCHANGED <<vstats, vpc>>
        ELSE IF r.error # ""
        THEN /\ vpc' = r.error
             /\ UNCHANGED <<vstats, warned, vidx>>
        ELSE /\ vstats' = write_file(vstats, b, r)
             /\ vidx' = vidx + 1
             /\ UNCHANGED <<warned, vpc>>
  /\ UNCHANGED <<vlut_files, vilut_files, vnames>>

\* the loop is over, main returns
Batch_return ==
  /\ UNCHANGED not_batch_vars
  /\ vpc = "loop"
  /\ vidx = Len(vnames)
  /\ vpc' = "returned"
  /\ UNCHANGED <<vlut_files, vilut_files, vstats, warned, vnames, vidx>>

NextBatch ==
  \/ Batch_start
  \/ Batch_item
  \/ Batch_return

SpecBatch == InitBatch /\ [][NextBatch]_vars

-----------------------------------------------------------------------------
(* LUT_build.py, mid_points, called on the values of one dimension, as     *)
(* input_variables calls it on each dimension of the full grid.            *)

\* values in one dimension
MaxGridLen == 3

\* the sequences handed to mid_points: values in any order, among them
\* the strictly increasing ones, as every dimension of a grid of
\* input_variables is, and the five dimensions of the full grid
InitGrid ==
  /\ Idle("grid")
  /\ dim_values \in
       UNION {[1..n -> {0, 250, 500, 1000, 4000, 7750, 10000}] :
                n \in 1..MaxGridLen}
       \cup {grid_full[d] : d \in DOMAIN grid_full}
  /\ mids = <<>>
  /\ gpc = "idle"
  /\ returned_grid = NoGrid

Mid_points ==
  /\ UNCHANGED not_grid_vars
  /\ gpc = "idle"
  /\ mids' = mid_points(dim_values)
  /\ gpc' = "called"
  /\ UNCHANGED <<dim_values, returned_grid>>

\* input_variables called with a key of build_selector
Input_variables ==
  /\ UNCHANGED not_grid_vars
  /\ gpc = "idle"
  /\ \E build_type \in build_selector_keys :
       returned_grid' = input_variables(build_type)
  /\ gpc' = "returned"
  /\ UNCHANGED <<dim_values, mids>>

NextGrid ==
  \/ Mid_points
  \/ Input_variables

SpecGrid == InitGrid /\ [][NextGrid]_vars

-----------------------------------------------------------------------------
(* The claims.                                                             *)

\* the file at path holds a pickled LUT
is_pickle(fsys, path) == path \in DOMAIN fsys /\ fsys[path].bytes = "pickle"

\* C1: main calls build_LUT only when no file is at config's filepath: while
\* the loop of build_LUT runs there is no such file, and a run that found
\* the file makes no simulation call and writes nothing.  So when a run
\* follows a run of the same Configuration that ended normally, it is
\* skipped, makes no simulation call and writes nothing, and the run before
\* it, unless it was skipped too, made one call for each permutation: one
\* simulation pass in the two runs.
C1_BuildOnlyOnce ==
  /\ pc = "loop" => config.filepath \notin DOMAIN fs
  /\ skipped => simCalls = 0 /\ ~wrote /\ pc = "time_check"
  /\ (pc = "time_check" /\ last.exit = "ok" /\ last.cfg = ConfigKey(config))
       => /\ skipped /\ simCalls = 0 /\ ~wrote
          /\ ~last.skipped => last.simCalls = last.nperms /\ last.nperms > 0

\* C1's case: a run of the 162 permutations has built the table, and the
\* next run, of the same Configuration, has found the file
C1_Witness ==
  /\ pc = "time_check" /\ skipped
  /\ last.exit = "ok" /\ ~last.skipped /\ last.cfg = ConfigKey(config)
  /\ last.simCalls = 162
  /\ is_pickle(fs, config.filepath)

\* C2 (as claimed): a run is skipped only for a file that holds the table
\* of the run's own Configuration
C2_Original ==
  (skipped /\ is_pickle(fs, config.filepath))
    => ConfigKey(fs[config.filepath].obj.config) = ConfigKey(config)

\* C3 (as claimed): whatever file is at a table's path holds a complete
\* table, one output for each permutation of its grid
C3_Original ==
  \A p \in DOMAIN fs :
    /\ fs[p].bytes = "pickle"
    /\ Len(fs[p].obj.outputs) = Len(permutate_invars(fs[p].obj.config.invars))

\* C4: a simulation call that raises ends the run at once with that error;
\* the outputs collected are gone and no file is at the run's filepath
C4_RaiseAbortsBuild ==
  /\ ~simRaised
  /\ (pc = "idle" /\ last.simRaised)
       => /\ last.exit = "sim_error"
          /\ outputs = <<>>
          /\ last.filepath \notin DOMAIN fs

\* C4's case: the simulator raised after outputs had been collected
C4_Witness ==
  pc = "idle" /\ last.simRaised /\ last.exit = "sim_error"
  /\ last.simCalls > 1 /\ last.filepath \notin DOMAIN fs

\* C5 (as claimed): a run in which the simulator returned a NaN does not
\* end normally, and no table is at its filepath when it has ended
C5_Original ==
  (pc = "idle" /\ last.simNaN)
    => last.exit # "ok" /\ ~is_pickle(fs, last.filepath)

\* the points the simulator was configured with when it computed the
\* coefficient j (1: a, 2: b) of each of outs
points_of(outs, j) == [i \in 1..Len(outs) |-> outs[i][j].at]

\* the pairs outs are, one by one and in order, the coefficients of the
\* runs at points
computed_at(outs, points) ==
  points_of(outs, 1) = points /\ points_of(outs, 2) = points

\* C6: in build_LUT's loop, after k permutations outputs has k elements,
\* element i computed from the run configured with permutation i (and with
\* the configuration's aerosol profile, view angle and spectrum); every
\* pickled table holds one output for each permutation of its grid, output
\* i computed from the run configured with permutation i
C6_OutputsAligned ==
  /\ pc \in {"loop", "dump"} =>
       /\ Len(outputs) = k
       /\ computed_at(outputs, SubSeq(perms, 1, k))
       /\ \A i \in 1..k : \A j \in 1..2 :
            outputs[i][j].fixed =
              <<config.aerosol_profile, config.view_zenith,
                config.spectrum.id>>
  /\ \A p \in DOMAIN fs :
       fs[p].bytes = "pickle" =>
         computed_at(fs[p].obj.outputs,
                     permutate_invars(fs[p].obj.config.invars))

\* C6's case: a table of 162 outputs is on disk
C6_Witness ==
  \E p \in DOMAIN fs : fs[p].bytes = "pickle" /\ Len(fs[p].obj.outputs) = 162

\* C7: the input points interpolate_LUTs rebuilds from a table that
\* build_LUT has written are, position by position, the permutations
\* build_LUT iterated over, and input point i is the point output i was
\* computed at
C7_InterpolatorInputsAligned ==
  /\ (pc = "time_check" /\ ~skipped) =>
       /\ is_pickle(fs, config.filepath)
       /\ ilut_inputs(fs[config.filepath].obj) = perms
  /\ \A p \in DOMAIN fs :
       fs[p].bytes = "pickle" =>
         computed_at(ilut_outputs(fs[p].obj), ilut_inputs(fs[p].obj))

\* C7's case: build_LUT has just written a table of 162 permutations
C7_Witness ==
  pc = "time_check" /\ ~skipped /\ Len(perms) = 162
  /\ is_pickle(fs, config.filepath)

\* C8: permutate_invars returns the Cartesian product of the five sequences
\* in the order solar_zs, H2Os, O3s, AOTs, alts, the first varying slowest:
\* element i holds the digits of i - 1 in the mixed radix of the lengths
C8_CartesianProduct ==
  presult # <<>> =>
    LET n1 == Len(pgrid.solar_zs)
        n2 == Len(pgrid.H2Os)
        n3 == Len(pgrid.O3s)
        n4 == Len(pgrid.AOTs)
        n5 == Len(pgrid.alts)
    IN /\ Len(presult) = n1 * n2 * n3 * n4 * n5
       /\ \A i \in 1..Len(presult) :
            presult[i] =
              <<pgrid.solar_zs[((i - 1) \div (n2 * n3 * n4 * n5)) + 1],
                pgrid.H2Os[(((i - 1) \div (n3 * n4 * n5)) % n2) + 1],
                pgrid.O3s[(((i - 1) \div (n4 * n5)) % n3) + 1],
                pgrid.AOTs[(((i - 1) \div n5) % n4) + 1],
                pgrid.alts[((i - 1) % n5) + 1]>>

\* C8's case: a grid with more than one value in every dimension
C8_Witness ==
  /\ presult # <<>>
  /\ Len(presult) >= 32
  /\ \A d \in {"solar_zs", "H2Os", "O3s", "AOTs", "alts"} : Len(pgrid[d]) > 1

\* C9 (as claimed): a run given a build-type tag that is not one of the
\* recognized ones gets no further than the checks of main
C9_Original ==
  (args.build_type # NotGiven
     /\ args.build_type[1] \notin recognized_build_types)
    => pc \in {"idle", "parsed"}

\* an option was given a value that is no channel, no aerosol profile or no
\* build type
unrecognized(a) ==
  \/ a.channel # NotGiven /\ a.channel[1] \notin PredefinedWavelengths_dict
  \/ a.aerosol # NotGiven /\ a.aerosol[1] \notin AeroProfiles
  \/ a.build_type # NotGiven
       /\ a.build_type[1] \notin recognized_build_types

\* C10 (as claimed): a run given an unrecognized channel, aerosol profile
\* or build type gets no further than the checks of main: IO_handler and
\* build_LUT do not run, no directory is made, no simulation call is made
\* and no file is written
C10_Original ==
  unrecognized(args)
    => /\ pc \in {"idle", "parsed"}
       /\ dirs = dirsAtStart
       /\ simCalls = 0
       /\ ~wrote

\* C11 (as claimed): an .ilut file that exists when a run of the
\* interpolation step starts is left as it is, and no interpolant is
\* constructed for its table; in two runs over the same directory the
\* interpolant of each table is constructed at most once
C11_Original ==
  /\ \A b \in DOMAIN ilutAtStart :
       b \in DOMAIN ilut_files /\ ilut_files[b] = ilutAtStart[b]
  /\ ipc \in {"build", "open", "dump"}
       => fnames[fidx + 1] \notin DOMAIN ilutAtStart
  /\ iruns <= 2 => \A b \in DOMAIN constructed : constructed[b] <= 1

\* C12: every table file that build_LUT has written can be read by each
\* reader of tables: create_interpolator, interpolate_LUTs and get_stats
\* find the keys they look up in the loaded table, none fails with a
\* missing key.
C12_Original ==
  \A path \in DOMAIN fs :
    is_pickle(fs, path) =>
      /\ create_interpolator(fs[path].obj).error # "KeyError"
      /\ interpolate_one(fs[path].obj).error # "KeyError"
      /\ get_stats(fs[path].obj, ilut_two, Fin(100)).error # "KeyError"

\* the width all output vectors of a table have, 0 if they differ
width_of(LUT) ==
  IF LUT.outputs # <<>>
     /\ \A i \in 1..Len(LUT.outputs) :
          Len(LUT.outputs[i]) = Len(LUT.outputs[1])
  THEN Len(LUT.outputs[1]) ELSE 0

\* C13: for a table whose output vectors all have the same width w, 2 or
\* 4, the build of the interpolant succeeds and every query returns a
\* vector of width w.  Stated for the failures that come from the width: no
\* run ends at such a table on an IndexError or a ValueError (a missing key
\* and a grid too small for a triangulation are left aside), and the
\* interpolant written for it answers a build point, an inner point and an
\* outer point with w numbers.
C13_Original ==
  \A b \in DOMAIN lut_files :
    width_of(lut_files[b]) \in {2, 4} =>
      /\ ilast.band = b => ilast.exit \notin {"IndexError", "ValueError"}
      /\ (b \in DOMAIN ilut_files /\ ilut_files[b].bytes = "pickle") =>
           \A x \in {<<0, 0, 0, 0, 0>>, <<5000, 1000, 200, 500, 1000>>,
                     <<20000, 0, 0, 0, 0>>} :
             Len(query(ilut_files[b].obj, x)) = width_of(lut_files[b])

saved_drefs(index) ==
  LET RECURSIVE column(_)
      column(f) ==
        IF f > Len(stat_files) THEN <<>>
        ELSE [i \in 1..Len(stat_files[f]) |-> stat_files[f][i][index]]
             \o column(f + 1)
  IN column(1)

\* C16: the Monte-Carlo percentile and histogram statistics are computed
\* over the saved reflectance differences that are not the NaN: a NaN is
\* left out of them and is never replaced by a zero error.
C16_Original ==
  mpc \in {"percentiles", "histograms"} =>
    \A p \in 1..Len(plotted) :
      \E index \in 1..Len(refs) :
        Len(plotted[p].of)
          = Len(SelectSeq(saved_drefs(index), LAMBDA x : x.k # "nan"))

\* C19: in a validation batch with a table whose .ilut file is missing,
\* when the program has ended the warning has been printed for every such
\* table and the statistics have been made and persisted for every table
\* whose .ilut file exists, wherever the missing ones are in the batch.
C19_Original ==
  (vpc \notin {"idle", "loop"}
   /\ \E b \in DOMAIN vlut_files : ~isfile(vilut_files, b)) =>
    \A b \in DOMAIN vlut_files :
      IF isfile(vilut_files, b) THEN isfile(vstats, b) ELSE b \in warned

\* C20: in each of the five dimensions every value of the validation grid
\* is the arithmetic midpoint of two consecutive values of the full grid,
\* lies strictly between the smallest and the largest full value and is no
\* full value; hence no validation permutation is a full permutation.
\* Stated of what mid_points returns for a strictly increasing sequence,
\* and of the two grids of input_variables when the sequence is a
\* dimension of the full grid.
C20_ValidationMidpoints ==
  (gpc = "called"
   /\ \A i \in 1..(Len(dim_values) - 1) : dim_values[i] < dim_values[i + 1])
  =>
    /\ Len(mids) = Len(dim_values) - 1
    /\ \A i \in 1..Len(mids) :
         /\ 2 * mids[i] = dim_values[i] + dim_values[i + 1]
         /\ dim_values[1] < mids[i]
         /\ mids[i] < dim_values[Len(dim_values)]
         /\ \A j \in 1..Len(dim_values) : mids[i] # dim_values[j]
    /\ \A d \in DOMAIN grid_full :
         dim_values = input_variables("full")[d] =>
           /\ input_variables("validation")[d] = mids
           /\ \A v \in {permutate_invars(input_variables("validation"))} :
                \A f \in {permutate_invars(input_variables("full"))} :
                  {v[i] : i \in 1..Len(v)} \cap {f[i] : i \in 1..Len(f)}
                    = {}

\* C20's case: mid_points has been called on the water vapour values of the
\* full grid and has returned the eight of the validation grid
C20_Witness ==
  /\ gpc = "called"
  /\ dim_values = grid_full.H2Os
  /\ Len(mids) = 8
  /\ mids[8] = 6750

\* the percentage difference at each validation point, before the NaNs
\* are taken out
raw_pd ==
  [i \in 1..Len(sixs_outputs) |->
     percent_difference(ref, sixs_outputs[i], estimated_outputs[i])]

\* the validation points whose percentage difference is not the NaN
not_nan_points == {i \in 1..Len(sixs_outputs) : raw_pd[i].k # "nan"}

\* the sum of the numbers a[i], i in S
RECURSIVE sum_over(_, _)
sum_over(a, S) ==
  IF S = {} THEN 0
  ELSE LET i == CHOOSE j \in S : TRUE IN a[i].v + sum_over(a, S \ {i})

\* C15: when k of the N validation points give a NaN difference and N - k
\* are left, reflectance_stats returns the N - k differences that are not
\* NaN, in the order of their points, and its statistics are those of
\* these values: min and max are the least and the greatest of them, the
\* mean is their sum over N - k, the standard deviation is zero when they
\* are all equal, and the percentiles of the absolute values lie, in
\* increasing order, between the least and the greatest absolute value
C15_NaNExcluded ==
  (stats_result.called /\ not_nan_points # {}) =>
    LET pd == stats_result.pd
        n == Cardinality(not_nan_points)
        finite == \A i \in not_nan_points : raw_pd[i].k = "num"
    IN /\ stats_result.error = ""
       /\ Len(pd) = n
       /\ \E f \in [1..n -> not_nan_points] :
            /\ \A i, j \in 1..n : i < j => f[i] < f[j]
            /\ \A i \in 1..n : pd[i] = raw_pd[f[i]]
       /\ \A i \in not_nan_points :
            fle(stats_result.stats[3], raw_pd[i])
            /\ fle(raw_pd[i], stats_result.stats[4])
       /\ \E i, j \in not_nan_points :
            stats_result.stats[3] = raw_pd[i]
            /\ stats_result.stats[4] = raw_pd[j]
       /\ finite =>
            /\ stats_result.stats[1]
                 = Fin(rdiv(sum_over(raw_pd, not_nan_points), n))
            /\ (\A i, j \in not_nan_points : raw_pd[i] = raw_pd[j])
                 => stats_result.stats[2] = Fin(0)
            /\ fle(stats_result.confidence[1], stats_result.confidence[2])
            /\ fle(stats_result.confidence[2], stats_result.confidence[3])
            /\ \E i, j \in not_nan_points :
                 /\ fle(fabs(raw_pd[i]), stats_result.confidence[1])
                 /\ fle(stats_result.confidence[3], fabs(raw_pd[j]))

\* C15's case: of three validation points the second gives a NaN, the
\* other two differences are numbers that differ
C15_Witness ==
  /\ stats_result.called
  /\ Len(sixs_outputs) = 3
  /\ not_nan_points = {1, 3}
  /\ raw_pd[1].k = "num" /\ raw_pd[3].k = "num" /\ raw_pd[1] # raw_pd[3]
  /\ stats_result.pd = <<raw_pd[1], raw_pd[3]>>

\* the validation points at which the interpolated transmissivity times
\* (direct + diffuse irradiance) is zero
zero_divisor_points ==
  {i \in 1..Len(estimated_outputs) :
     fmul(estimated_outputs[i][3],
          fadd(estimated_outputs[i][1], estimated_outputs[i][2])) = Fin(0)}

\* C17 (as claimed): a validation point at which the interpolated
\* transmissivity times irradiance is zero is not among the differences
\* the statistics are computed over
C17_Original ==
  stats_result.called =>
    Len(stats_result.pd)
      <= Len(sixs_outputs) - Cardinality(zero_divisor_points)

\* C18: when every validation point gives a NaN difference,
\* reflectance_stats raises and returns nothing: no differences, no
\* statistics, no percentiles
C18_AllNaNFails ==
  (stats_result.called /\ not_nan_points = {}) =>
    /\ stats_result.error # ""
    /\ stats_result.pd = <<>>
    /\ stats_result.stats = <<>>
    /\ stats_result.confidence = <<>>

\* C18's case: three validation points, one outside the convex hull and one
\* a 0/0, all of them NaN
C18_Witness ==
  /\ stats_result.called
  /\ Len(sixs_outputs) = 3
  /\ not_nan_points = {}
  /\ zero_divisor_points # {}
  /\ \E i \in 1..3 : estimated_outputs[i][1] = NaN
  /\ stats_result.error = "ValueError"

\* C21: for every recognized build type input_variables returns a grid with
\* exactly the five dimensions solar_zs, H2Os, O3s, AOTs and alts, each a
\* sequence that is not empty and holds no value twice.
C21_GridShape ==
  gpc = "returned" =>
    /\ DOMAIN returned_grid = {"solar_zs", "H2Os", "O3s", "AOTs", "alts"}
    /\ \A d \in DOMAIN returned_grid :
         /\ Len(returned_grid[d]) >= 1
         /\ \A i, j \in 1..Len(returned_grid[d]) :
              i # j => returned_grid[d][i] # returned_grid[d][j]

\* C21's case: input_variables has returned the grid of several values in
\* each dimension of the build type test2
C21_Witness ==
  /\ gpc = "returned"
  /\ Len(returned_grid.O3s) = 3
  /\ Len(returned_grid.AOTs) = 2

\* C22: for an input of at least two numbers mid_points returns a sequence
\* one shorter than the input, whose element i lies as far above input
\* element i as below input element i + 1: the mean of the two.
C22_MidPoints ==
  (gpc = "called" /\ Len(dim_values) >= 2) =>
    /\ Len(mids) = Len(dim_values) - 1
    /\ \A i \in 1..(Len(dim_values) - 1) :
         mids[i] - dim_values[i] = dim_values[i + 1] - mids[i]

\* C22's case: mid_points has returned for three values that are not in
\* increasing order
C22_Witness ==
  /\ gpc = "called"
  /\ dim_values = <<1000, 0, 250>>
  /\ mids = <<500, 125>>

\* the permutation points of a table, in either layout
table_points(LUT) ==
  IF "inputs" \in DOMAIN LUT THEN LUT.inputs.permutations
  ELSE permutate_invars(LUT.config.invars)

C24_Original ==
  \A b \in DOMAIN lut_files :
    ("config" \in DOMAIN lut_files[b]
     /\ lut_files[b].config.invars = input_variables("test")) =>
      /\ Len(table_points(lut_files[b])) = 1
      /\ Len(lut_files[b].outputs) = 1
      /\ ilast.band = b => ilast.exit \notin {"QhullError", "ValueError"}
      /\ (b \in DOMAIN ilut_files /\ ilut_files[b].bytes = "pickle") =>
           query(ilut_files[b].obj, <<0, 0, 0, 0, 0>>)
             = lut_files[b].outputs[1]

\* C25: LUT_interpolate.main, given one path argument that is not an
\* existing LUTs directory, a path without a '/LUTs/' segment included, prints
\* a diagnostic message and exits with a non-zero status.
C25_Original ==
  (ipc = "idle" /\ Len(sys_argv) = 1 /\ sys_argv[1] # LutPath) =>
    ilast.exit = "invalid LUT directory"

\* C30: a run of LUT_interpolate.main that ends with an error exit (wrong
\* number of arguments, invalid LUT directory, no .lut file in it) has
\* created no directory and written no file.
C30_Original ==
  [][(/\ ipc = "idle"
      /\ iruns' = iruns + 1
      /\ ilast'.exit \in {"usage", "invalid LUT directory", "exit 1"})
     => UNCHANGED <<lut_files, ilut_dir, ilut_files, made_dirs>>]_vars

\* C28: when interpolate_LUTs returns from a run over a LUTs directory that
\* holds table files, all of them tables build_LUT writes for a grid of two
\* values in each dimension, every .lut file has an .ilut file of the same
\* stem in the iLUTs directory.
C28_Original ==
  (/\ ipc = "idle" /\ iruns > 0
   /\ sys_argv = <<>> /\ ilast.exit # "usage"
   /\ DOMAIN lut_files # {}
   /\ \A b \in DOMAIN lut_files :
        \E w \in {2, 4} : lut_files[b] = table_of_build(grid_two, w))
  => \A b \in DOMAIN lut_files : isfile(ilut_files, b)

all_points_exact ==
  \A i \in 1..Len(sixs_outputs) :
    /\ estimated_outputs[i] = sixs_outputs[i]
    /\ i \notin zero_divisor_points

\* the reflectance the inverse model gives at point i for the radiance of
\* the forward model
round_trip(i) ==
  surface_reflectance(at_sensor_radiance(ref, sixs_outputs[i]),
                      estimated_outputs[i])

inside_full_grid ==
  \A g \in {input_variables("full")} :
    \A d \in 1..5 :
      \A dim \in {g[<<"solar_zs", "H2Os", "O3s", "AOTs", "alts">>[d]]} :
        /\ \E i \in 1..Len(dim) : dim[i] <= queried[d]
        /\ \E i \in 1..Len(dim) : queried[d] <= dim[i]

====
